---- MODULE Spec2Model ----
(***************************************************************************)
(* Model of the SponsorList component (src/components/SponsorList.tsx).    *)
(*                                                                         *)
(* SponsorList is a function component without props, state or effects.   *)
(* One invocation declares two array literals (emeraldSponsors, sponsors), *)
(* evaluates the JSX of the Emerald section and of the Jade section (each  *)
(* a heading div, an hr and a row div holding array.map(<Sponsor .../>))   *)
(* and returns the root div.  The model follows one invocation step by     *)
(* step and records every returned tree.                                   *)
(*                                                                         *)
(* Spec     : the component as shipped (the two literals of lines 5-22).   *)
(* SpecData : the same code over every pair of arrays of at most           *)
(*            MaxRecords records, for the statements that quantify over    *)
(*            the contents of a tier (empty tiers, order of records).      *)
(***************************************************************************)
EXTENDS Integers, Sequences, FiniteSets, TLC

VARIABLES
    declared,          \* the array literals written in the source text
    pc,                \* position of the current invocation
    emeraldSponsors,   \* local const of the running invocation
    sponsors,          \* local const of the running invocation
    cards,             \* result array of the Array.prototype.map in progress
    sections,          \* the section elements already created
    returned,          \* the trees returned so far, one per invocation
    \* -- docs/features/plugin/functions/parser.mdx: when a Parser is called
    upload,            \* the item being uploaded, or NoItem
    considered,        \* number of Parsers considered for this upload
    decision,          \* the latest Parser considered, the item, and the verdict
    \* -- docs/features/plugin/functions/parser.mdx: Parser.split
    splitPc,           \* position in split(self, request, docs)
    config,            \* request.app.state.config
    text_splitter,     \* local text_splitter: the splitter class chosen, or "none"
    docs,              \* local docs: the documents, then the chunks
    outcome,           \* how the latest call of split ended
    \* -- the update guide (Manual Update)
    step,              \* position in the manual update
    container,         \* the open-webui container: NoContainer or its image version
    localImage,        \* version of ghcr.io/open-webui/open-webui:main held locally
    latestImage,       \* version of that tag in the registry
    volume,            \* the open-webui volume: NoVolume or the data in it
    dataBefore,        \* the volume as it was when the update began
    volumeRemoved      \* whether docker volume rm was run in this update

sponsorVars == <<declared, pc, emeraldSponsors, sponsors, cards, sections, returned>>

parserVars == <<upload, considered, decision>>

splitVars == <<splitPc, config, text_splitter, docs, outcome>>

updateVars == <<step, container, localImage, latestImage, volume, dataBefore, volumeRemoved>>

\* The state of the documented procedures, which SponsorList never touches.
docVars == <<parserVars, splitVars, updateVars>>

vars == <<sponsorVars, docVars>>

\* Number of invocations that are followed.
MaxRenders == 20
\* Longest array literal considered by SpecData.
MaxRecords == 2

(***************************************************************************)
(* The data                                                                *)
(***************************************************************************)
EmeraldLiteral ==
    << [ imgSrc      |-> "/sponsors/logos/n8n.png",
         url         |-> "https://n8n.io/",
         name        |-> "n8n",
         description |-> "Does your interface have a backend yet? Try n8n" ] >>

JadeLiteral ==
    << [ imgSrc      |-> "/sponsors/sponsor.png",
         url         |-> "https://openwebui.com",
         name        |-> "Open WebUI",
         description |-> "On a mission to build the best AI user interface." ] >>

\* A record whose strings are neither a URL nor an existing asset.
MalformedRecord ==
    [ imgSrc |-> "no-such-image", url |-> "not a url", name |-> "",
      description |-> "" ]

\* The records the arrays of SpecData are made of.
RecordPool == { EmeraldLiteral[1], JadeLiteral[1], MalformedRecord }

SeqsUpTo(S, n) == UNION { [1..k -> S] : k \in 0..n }

(***************************************************************************)
(* The elements                                                            *)
(***************************************************************************)
Node(tag, className, text, sponsor, children) ==
    [ tag |-> tag, className |-> className, text |-> text,
      sponsor |-> sponsor, children |-> children ]

\* <Sponsor sponsor={sponsor} />
SponsorCard_NormalizeUrl(sponsor) ==
    Node("Sponsor", "", "",
         << [sponsor EXCEPT !.url = IF @ = "https://openwebui.com"
                                    THEN "https://openwebui.com/" ELSE @] >>,
         <<>>)

SponsorCard(sponsor) == Node("Sponsor", "", "", <<sponsor>>, <<>>)

\* <div className="font-medium text-xl text-black dark:text-white">name</div>
Heading(name) ==
    Node("div", "font-medium text-xl text-black dark:text-white", name,
         <<>>, <<>>)

\* <hr className="mt-1 mb-3 border-gray-200 dark:border-gray-700" />
Separator ==
    Node("hr", "mt-1 mb-3 border-gray-200 dark:border-gray-700", "",
         <<>>, <<>>)

\* <div className="flex flex-wrap items-start justify-start gap-5">{...}</div>
Row(children) ==
    Node("div", "flex flex-wrap items-start justify-start gap-5", "",
         <<>>, children)

\* <div className="mb-4"> heading, hr, row </div>
Section_HrFirst(name, children) ==
    Node("div", "mb-4", "", <<>>, << Separator, Heading(name), Row(children) >>)

Section(name, children) ==
    Node("div", "mb-4", "", <<>>, << Heading(name), Separator, Row(children) >>)

\* The outer <div> of the return statement.
Root(children) == Node("div", "", "", <<>>, children)

(***************************************************************************)
(* One invocation of SponsorList                                           *)
(***************************************************************************)
TypeOK ==
    /\ pc \in {"idle", "emerald", "jade", "root"}
    /\ Len(returned) <= MaxRenders

\* No item is being uploaded.
NoItem == [id |-> "none", type |-> "none"]

\* No Parser has been considered yet.
NoDecision ==
    [ parser |-> [parser_type |-> {}, overrides |-> FALSE, accepts |-> {}],
      item |-> NoItem, called |-> FALSE ]

NoContainer == [exists |-> FALSE, image |-> 0]

NoVolume == [exists |-> FALSE, data |-> {}]

ParserInit ==
    /\ upload = NoItem
    /\ considered = 0
    /\ decision = NoDecision

SplitInit ==
    /\ splitPc = "idle"
    /\ config = [TEXT_SPLITTER |-> "", TIKTOKEN_ENCODING_NAME |-> "cl100k_base"]
    /\ text_splitter = "none"
    /\ docs = <<>>
    /\ outcome = "none"

\* An installation: the container runs the local image on the open-webui
\* volume, which holds no chat yet.
UpdateInit ==
    /\ step = "running"
    /\ container = [exists |-> TRUE, image |-> 1]
    /\ localImage = 1
    /\ latestImage = 1
    /\ volume = [exists |-> TRUE, data |-> {}]
    /\ dataBefore = NoVolume
    /\ volumeRemoved = FALSE

DocInit == ParserInit /\ SplitInit /\ UpdateInit

Init ==
    /\ declared = [emeraldSponsors |-> EmeraldLiteral, sponsors |-> JadeLiteral]
    /\ pc = "idle"
    /\ emeraldSponsors = <<>>
    /\ sponsors = <<>>
    /\ cards = <<>>
    /\ sections = <<>>
    /\ returned = <<>>
    /\ DocInit

InitData ==
    /\ declared \in [emeraldSponsors : SeqsUpTo(RecordPool, MaxRecords),
                     sponsors        : SeqsUpTo(RecordPool, MaxRecords)]
    /\ pc = "idle"
    /\ emeraldSponsors = <<>>
    /\ sponsors = <<>>
    /\ cards = <<>>
    /\ sections = <<>>
    /\ returned = <<>>
    /\ DocInit

\* The arrays live outside the function and grow on every later call.
Invoke_Accumulate ==
    /\ pc = "idle"
    /\ Len(returned) < MaxRenders
    /\ emeraldSponsors' = IF returned = <<>> THEN declared.emeraldSponsors
                          ELSE emeraldSponsors \o declared.emeraldSponsors
    /\ sponsors' = IF returned = <<>> THEN declared.sponsors
                   ELSE sponsors \o declared.sponsors
    /\ cards' = <<>>
    /\ sections' = <<>>
    /\ pc' = "emerald"
    /\ UNCHANGED <<declared, returned>>
    /\ UNCHANGED docVars

\* Entry of the arrow function: the two const declarations.
Invoke ==
    /\ pc = "idle"
    /\ Len(returned) < MaxRenders
    /\ emeraldSponsors' = declared.emeraldSponsors
    /\ sponsors' = declared.sponsors
    /\ cards' = <<>>
    /\ sections' = <<>>
    /\ pc' = "emerald"
    /\ UNCHANGED <<declared, returned>>
    /\ UNCHANGED docVars

\* The callback reads the other array.
MapEmerald_WrongArray ==
    /\ pc = "emerald"
    /\ Len(cards) < Len(sponsors)
    /\ cards' = Append(cards, SponsorCard(sponsors[Len(cards) + 1]))
    /\ UNCHANGED <<declared, pc, emeraldSponsors, sponsors, sections, returned>>
    /\ UNCHANGED docVars

\* The loop consumes the array (shift) instead of indexing it.
MapEmerald_Shift ==
    /\ pc = "emerald"
    /\ emeraldSponsors # <<>>
    /\ cards' = Append(cards, SponsorCard(Head(emeraldSponsors)))
    /\ emeraldSponsors' = Tail(emeraldSponsors)
    /\ UNCHANGED <<declared, pc, sponsors, sections, returned>>
    /\ UNCHANGED docVars

\* One callback of emeraldSponsors.map((sponsor) => <Sponsor .../>).
MapEmerald ==
    /\ pc = "emerald"
    /\ Len(cards) < Len(emeraldSponsors)
    /\ cards' = Append(cards, SponsorCard(emeraldSponsors[Len(cards) + 1]))
    /\ UNCHANGED <<declared, pc, emeraldSponsors, sponsors, sections, returned>>
    /\ UNCHANGED docVars

\* The last card is sliced off.
EmeraldSection_DropLast ==
    /\ pc = "emerald"
    /\ Len(cards) = Len(emeraldSponsors)
    /\ sections' = Append(sections,
                      Section("Emerald", SubSeq(cards, 1, Len(cards) - 1)))
    /\ cards' = <<>>
    /\ pc' = "jade"
    /\ UNCHANGED <<declared, emeraldSponsors, sponsors, returned>>
    /\ UNCHANGED docVars

\* The section is rendered only when the array is not empty.
EmeraldSection_SkipEmpty ==
    /\ pc = "emerald"
    /\ Len(cards) = Len(emeraldSponsors)
    /\ sections' = IF emeraldSponsors = <<>> THEN sections
                   ELSE Append(sections, Section("Emerald", cards))
    /\ cards' = <<>>
    /\ pc' = "jade"
    /\ UNCHANGED <<declared, emeraldSponsors, sponsors, returned>>
    /\ UNCHANGED docVars

\* map is done: the Emerald section element is created.
EmeraldSection ==
    /\ pc = "emerald"
    /\ Len(cards) = Len(emeraldSponsors)
    /\ sections' = Append(sections, Section("Emerald", cards))
    /\ cards' = <<>>
    /\ pc' = "jade"
    /\ UNCHANGED <<declared, emeraldSponsors, sponsors, returned>>
    /\ UNCHANGED docVars

\* The callback reads the other array.
MapJade_WrongArray ==
    /\ pc = "jade"
    /\ Len(cards) < Len(emeraldSponsors)
    /\ cards' = Append(cards, SponsorCard(emeraldSponsors[Len(cards) + 1]))
    /\ UNCHANGED <<declared, pc, emeraldSponsors, sponsors, sections, returned>>
    /\ UNCHANGED docVars

\* Each card is put in front of the earlier ones (unshift).
MapJade_Prepend ==
    /\ pc = "jade"
    /\ Len(cards) < Len(sponsors)
    /\ cards' = <<SponsorCard(sponsors[Len(cards) + 1])>> \o cards
    /\ UNCHANGED <<declared, pc, emeraldSponsors, sponsors, sections, returned>>
    /\ UNCHANGED docVars

\* The callback rejects a record whose url is not a URL: the call throws and
\* the invocation returns nothing.
MapJade_Validate ==
    /\ pc = "jade"
    /\ Len(cards) < Len(sponsors)
    /\ sponsors[Len(cards) + 1].url # "not a url"
    /\ cards' = Append(cards, SponsorCard(sponsors[Len(cards) + 1]))
    /\ UNCHANGED <<declared, pc, emeraldSponsors, sponsors, sections, returned>>
    /\ UNCHANGED docVars

\* One callback of sponsors.map((sponsor) => <Sponsor .../>).
MapJade ==
    /\ pc = "jade"
    /\ Len(cards) < Len(sponsors)
    /\ cards' = Append(cards, SponsorCard(sponsors[Len(cards) + 1]))
    /\ UNCHANGED <<declared, pc, emeraldSponsors, sponsors, sections, returned>>
    /\ UNCHANGED docVars

\* The heading text of the section above was left in place.
JadeSection_EmeraldHeading ==
    /\ pc = "jade"
    /\ Len(cards) = Len(sponsors)
    /\ sections' = Append(sections, Section("Emerald", cards))
    /\ cards' = <<>>
    /\ pc' = "root"
    /\ UNCHANGED <<declared, emeraldSponsors, sponsors, returned>>
    /\ UNCHANGED docVars

\* map is done: the Jade section element is created.
JadeSection ==
    /\ pc = "jade"
    /\ Len(cards) = Len(sponsors)
    /\ sections' = Append(sections, Section("Jade", cards))
    /\ cards' = <<>>
    /\ pc' = "root"
    /\ UNCHANGED <<declared, emeraldSponsors, sponsors, returned>>
    /\ UNCHANGED docVars

\* The block comment of lines 27-56 is not closed off: the three sections in
\* it are part of the tree.
Return_WithCommentedTiers ==
    /\ pc = "root"
    /\ returned' = Append(returned,
                       Root(<< Section("Diamond", <<>>), Section("Sapphire", <<>>),
                               Section("Topaz", <<>>) >> \o sections))
    /\ pc' = "idle"
    /\ UNCHANGED <<declared, emeraldSponsors, sponsors, cards, sections>>
    /\ UNCHANGED docVars

\* return ( <div> ...sections... </div> )
Return ==
    /\ pc = "root"
    /\ returned' = Append(returned, Root(sections))
    /\ pc' = "idle"
    /\ UNCHANGED <<declared, emeraldSponsors, sponsors, cards, sections>>
    /\ UNCHANGED docVars

Next ==
    \/ Invoke
    \/ MapEmerald
    \/ EmeraldSection
    \/ MapJade
    \/ JadeSection
    \/ Return

Spec == Init /\ [][Next]_vars

SpecData == InitData /\ [][Next]_vars

(***************************************************************************)
(* docs/features/plugin/functions/parser.mdx: when a Parser is called.     *)
(* The page states the rule; the application that applies it is not part   *)
(* of this repository.  An upload is followed through the Parsers that are *)
(* considered for it, each with any parser_type and any                    *)
(* is_applicable_to_item.                                                  *)
(***************************************************************************)
\* Parsers considered for one upload.
MaxParsers == 2

\* The kinds of content an item can be (PARSER_TYPE without ALL).
ContentTypes == { "TEXT", "FILE", "YOUTUBE", "WEB_CONTENT", "WEB_SEARCH" }

\* The choices of open_webui.utils.parser.PARSER_TYPE.
PARSER_TYPE == ContentTypes \cup { "ALL" }

\* item_id: a file name, a search query, a web url.
ItemIds == { "notes.txt", "https://example.com" }

Items == [id : ItemIds, type : ContentTypes]

\* A Parser: any combination of PARSER_TYPE values, and either the inherited
\* is_applicable_to_item or an override that accepts some item ids.
Parsers ==
    [parser_type : SUBSET PARSER_TYPE \ {{}}, overrides : {FALSE}, accepts : {{}}]
    \cup [parser_type : SUBSET PARSER_TYPE \ {{}}, overrides : {TRUE},
          accepts : SUBSET ItemIds]

\* The inherited method answers False.
is_applicable_to_item_DefaultFalse(parser, item_id) ==
    IF parser.overrides THEN item_id \in parser.accepts ELSE FALSE

\* ParserInterface.is_applicable_to_item returns True; an override decides
\* by the item.
is_applicable_to_item(parser, item_id) ==
    IF parser.overrides THEN item_id \in parser.accepts ELSE TRUE

\* "of the correct PARSER_TYPE": ALL supersedes the other choices.
OfCorrectType(parser, type) ==
    "ALL" \in parser.parser_type \/ type \in parser.parser_type

\* A user uploads new Knowledge.
UploadItem ==
    /\ upload = NoItem
    /\ \E item \in Items : upload' = item
    /\ considered' = 0
    /\ UNCHANGED <<decision, sponsorVars, splitVars, updateVars>>

\* One Parser is considered for the upload: it is called when it is of the
\* correct PARSER_TYPE and is_applicable_to_item() returns True.
ConsiderParser ==
    /\ upload # NoItem
    /\ considered < MaxParsers
    /\ \E parser \in Parsers :
          decision' = [ parser |-> parser, item |-> upload,
                        called |-> /\ OfCorrectType(parser, upload.type)
                                   /\ is_applicable_to_item(parser, upload.id) ]
    /\ considered' = considered + 1
    /\ UNCHANGED <<upload, sponsorVars, splitVars, updateVars>>

\* The upload is over.
FinishUpload ==
    /\ upload # NoItem
    /\ upload' = NoItem
    /\ UNCHANGED <<considered, decision, sponsorVars, splitVars, updateVars>>

NextParser == UploadItem \/ ConsiderParser \/ FinishUpload

SpecParser == Init /\ [][NextParser]_vars

\* C12: a Parser that was called for an item has a parser_type that holds the
\* item's type or ALL, and its is_applicable_to_item accepts the item; a
\* Parser that does not override is_applicable_to_item was called exactly when
\* its parser_type holds the item's type or ALL.
C12_CalledOnlyIfTypeAndApplicable ==
    decision # NoDecision =>
        LET p == decision.parser
            typeMatch == decision.item.type \in p.parser_type \/ "ALL" \in p.parser_type
        IN  /\ decision.called =>
                  /\ typeMatch
                  /\ p.overrides => decision.item.id \in p.accepts
            /\ ~p.overrides => (decision.called <=> typeMatch)

C12_Witness ==
    /\ decision.called
    /\ ~decision.parser.overrides
    /\ decision.parser.parser_type = { "ALL", "YOUTUBE" }
    /\ decision.item.type = "FILE"

(***************************************************************************)
(* The update guide, "Manual Update": docker rm -f, docker pull, the        *)
(* optional docker volume rm, docker run, as the page describes them.      *)
(***************************************************************************)
\* Versions of the image that are published.
MaxVersion == 3

\* What the users can have stored in the volume.
Chats == { "chat1", "chat2" }

\* The application is used: chat histories and other data come and go.
UseApp ==
    /\ step \in {"running", "updated"}
    /\ container.exists /\ volume.exists
    /\ \E d \in SUBSET Chats : d # volume.data /\ volume' = [volume EXCEPT !.data = d]
    /\ step' = "running"
    /\ UNCHANGED <<container, localImage, latestImage, dataBefore, volumeRemoved>>
    /\ UNCHANGED <<sponsorVars, parserVars, splitVars>>

\* A new version of ghcr.io/open-webui/open-webui:main is published.
Release ==
    /\ latestImage < MaxVersion
    /\ latestImage' = latestImage + 1
    /\ UNCHANGED <<step, container, localImage, volume, dataBefore, volumeRemoved>>
    /\ UNCHANGED <<sponsorVars, parserVars, splitVars>>

\* The removal takes the named volume with it.
RemoveContainer_WithVolume ==
    /\ step \in {"running", "updated"}
    /\ container.exists
    /\ container' = NoContainer
    /\ dataBefore' = volume
    /\ volume' = NoVolume
    /\ volumeRemoved' = FALSE
    /\ step' = "removed"
    /\ UNCHANGED <<localImage, latestImage>>
    /\ UNCHANGED <<sponsorVars, parserVars, splitVars>>

\* 1. docker rm -f open-webui: stops and removes the container, "but it
\* won't delete the data stored in the Docker volume".
RemoveContainer ==
    /\ step \in {"running", "updated"}
    /\ container.exists
    /\ container' = NoContainer
    /\ dataBefore' = volume
    /\ volumeRemoved' = FALSE
    /\ step' = "removed"
    /\ UNCHANGED <<localImage, latestImage, volume>>
    /\ UNCHANGED <<sponsorVars, parserVars, splitVars>>

\* 2. docker pull ghcr.io/open-webui/open-webui:main: updates the image,
\* "but it won't update the running container or its data".
PullImage ==
    /\ step = "removed"
    /\ localImage' = latestImage
    /\ step' = "pulled"
    /\ UNCHANGED <<container, latestImage, volume, dataBefore, volumeRemoved>>
    /\ UNCHANGED <<sponsorVars, parserVars, splitVars>>

\* Optional: docker volume rm open-webui, "this will delete all your chat
\* histories and other data".
RemoveVolume ==
    /\ step = "pulled"
    /\ volume.exists
    /\ volume' = NoVolume
    /\ volumeRemoved' = TRUE
    /\ UNCHANGED <<step, container, localImage, latestImage, dataBefore>>
    /\ UNCHANGED <<sponsorVars, parserVars, splitVars>>

\* 3. docker run -d -p 3000:8080 -v open-webui:/app/backend/data ...: the
\* container starts with the updated image and the existing volume, or with
\* "a new, empty volume" when the volume was removed.
RunContainer ==
    /\ step = "pulled"
    /\ container' = [exists |-> TRUE, image |-> localImage]
    /\ volume' = IF volume.exists THEN volume ELSE [exists |-> TRUE, data |-> {}]
    /\ step' = "updated"
    /\ UNCHANGED <<localImage, latestImage, dataBefore, volumeRemoved>>
    /\ UNCHANGED <<sponsorVars, parserVars, splitVars>>

NextUpdate ==
    \/ UseApp
    \/ Release
    \/ RemoveContainer
    \/ PullImage
    \/ RemoveVolume
    \/ RunContainer

SpecUpdate == Init /\ [][NextUpdate]_vars

\* C13: when docker run has started the container at the end of a manual
\* update, the open-webui volume holds what it held before docker rm -f if
\* docker volume rm was not run in between, and is a new, empty volume if it
\* was run.
C13_VolumeKeptUnlessRemoved ==
    step = "updated" =>
        /\ container.exists /\ container.image = localImage
        /\ volume.exists
        /\ ~volumeRemoved => volume = dataBefore
        /\ volumeRemoved => volume.data = {}

C13_Witness ==
    /\ step = "updated"
    /\ ~volumeRemoved
    /\ dataBefore.data = Chats
    /\ volume.data = Chats
    /\ container.image = 2

(***************************************************************************)
(* docs/features/plugin/functions/parser.mdx: Parser.split, the override   *)
(* of DefaultParser.split shown on the page.  The splitters are langchain  *)
(* classes: split_documents is any list of chunks, none for no document.   *)
(***************************************************************************)
\* Documents handed to one call of split.
MaxDocs == 2
\* Chunks split_documents gives back.
MaxChunks == 2

\* Values of request.app.state.config.TEXT_SPLITTER.
SplitterValues == { "", "character", "token", "markdown", "Token" }

\* Values of request.app.state.config.TIKTOKEN_ENCODING_NAME.
EncodingNames == { "cl100k_base", "no-such-encoding" }

DocPool == { "document" }

ChunkPool == { "chunk a", "chunk b" }

\* split(self, request, docs) is called.
Split ==
    /\ splitPc = "idle"
    /\ \E ts \in SplitterValues, enc \in EncodingNames :
          config' = [TEXT_SPLITTER |-> ts, TIKTOKEN_ENCODING_NAME |-> enc]
    /\ \E d \in SeqsUpTo(DocPool, MaxDocs) : docs' = d
    /\ text_splitter' = "none"
    /\ outcome' = "none"
    /\ splitPc' = "choose"
    /\ UNCHANGED <<sponsorVars, parserVars, updateVars>>

\* The if / elif / else on TEXT_SPLITTER.  tiktoken.get_encoding raises on a
\* name it does not know.
ChooseSplitter ==
    /\ splitPc = "choose"
    /\ IF config.TEXT_SPLITTER \in {"", "character"}
       THEN /\ text_splitter' = "RecursiveCharacterTextSplitter"
            /\ splitPc' = "split"
            /\ UNCHANGED outcome
       ELSE IF config.TEXT_SPLITTER = "token"
       THEN IF config.TIKTOKEN_ENCODING_NAME = "cl100k_base"
            THEN /\ text_splitter' = "TokenTextSplitter"
                 /\ splitPc' = "split"
                 /\ UNCHANGED outcome
            ELSE /\ outcome' = "raised by tiktoken.get_encoding"
                 /\ splitPc' = "idle"
                 /\ UNCHANGED text_splitter
       ELSE /\ outcome' = "ValueError: Invalid text splitter"
            /\ splitPc' = "idle"
            /\ UNCHANGED text_splitter
    /\ UNCHANGED <<config, docs>>
    /\ UNCHANGED <<sponsorVars, parserVars, updateVars>>

\* docs = text_splitter.split_documents(docs)
SplitDocuments ==
    /\ splitPc = "split"
    /\ \E chunks \in SeqsUpTo(ChunkPool, MaxChunks) :
          /\ docs = <<>> => chunks = <<>>
          /\ docs' = chunks
    /\ splitPc' = "check"
    /\ UNCHANGED <<config, text_splitter, outcome>>
    /\ UNCHANGED <<sponsorVars, parserVars, updateVars>>

\* The length test is missing: the chunks are returned as they are.
CheckChunks_NoEmptyTest ==
    /\ splitPc = "check"
    /\ outcome' = "returned"
    /\ splitPc' = "idle"
    /\ UNCHANGED <<config, text_splitter, docs>>
    /\ UNCHANGED <<sponsorVars, parserVars, updateVars>>

\* if len(docs) == 0: raise ValueError(ERROR_MESSAGES.EMPTY_CONTENT);
\* return docs
CheckChunks ==
    /\ splitPc = "check"
    /\ outcome' = IF Len(docs) = 0 THEN "ValueError: EMPTY_CONTENT" ELSE "returned"
    /\ splitPc' = "idle"
    /\ UNCHANGED <<config, text_splitter, docs>>
    /\ UNCHANGED <<sponsorVars, parserVars, updateVars>>

NextSplit == Split \/ ChooseSplitter \/ SplitDocuments \/ CheckChunks

SpecSplit == Init /\ [][NextSplit]_vars

\* C15: split returns only with TEXT_SPLITTER "", "character" or "token" and
\* at least one chunk; with any other TEXT_SPLITTER it ends with the
\* ValueError "Invalid text splitter", no splitter built and the documents
\* not split; and when the splitter gives no chunk it ends with the
\* ValueError EMPTY_CONTENT, so an empty list is never returned.
C15_SplitReturnsOrRaises ==
    /\ outcome = "returned" =>
          /\ config.TEXT_SPLITTER \in {"", "character", "token"}
          /\ Len(docs) >= 1
          /\ \A i \in DOMAIN docs : docs[i] \in ChunkPool
    /\ (splitPc # "choose" /\ config.TEXT_SPLITTER \notin {"", "character", "token"}) =>
          /\ splitPc = "idle"
          /\ outcome = "ValueError: Invalid text splitter"
          /\ text_splitter = "none"
          /\ \A i \in DOMAIN docs : docs[i] \in DocPool
    /\ (splitPc = "idle" /\ text_splitter # "none" /\ docs = <<>>) =>
          outcome = "ValueError: EMPTY_CONTENT"

C15_Witness ==
    /\ splitPc = "idle"
    /\ outcome = "ValueError: EMPTY_CONTENT"
    /\ config.TEXT_SPLITTER = "token"
    /\ text_splitter = "TokenTextSplitter"
    /\ docs = <<>>

(***************************************************************************)
(* Reading a returned tree                                                 *)
(***************************************************************************)
RECURSIVE Flatten(_), FlattenAll(_)
\* The elements of a tree in document order.
Flatten(n) == <<n>> \o FlattenAll(n.children)

FlattenAll(s) == IF s = <<>> THEN <<>> ELSE Flatten(Head(s)) \o FlattenAll(Tail(s))

IsHeading(n) == n.tag = "div" /\ n.text # ""

IsSeparator(n) == n.tag = "hr"

IsCard(n) == n.tag = "Sponsor"

Range(s) == { s[i] : i \in DOMAIN s }

\* The tiers of SponsorList, in the order of the source text.
Tiers == << "Emerald", "Jade" >>

\* The array literal the source declares for a tier.
TierRecords(t) == IF t = "Emerald" THEN declared.emeraldSponsors ELSE declared.sponsors

\* Positions, in document order, of the headings that read t.
HeadingsOf(tree, t) ==
    LET flat == Flatten(tree)
    IN  { i \in DOMAIN flat : IsHeading(flat[i]) /\ flat[i].text = t }

\* The sections (children of the root) that hold a heading reading t.
SectionsOf(tree, t) ==
    { i \in DOMAIN tree.children : HeadingsOf(tree.children[i], t) # {} }

\* The cards below an element, in document order.
Cards(n) == SelectSeq(Flatten(n), IsCard)

\* The tree returned by the latest invocation.  Every returned tree is the
\* latest one in the state that follows its return.
Latest == returned[Len(returned)]

(***************************************************************************)
(* C1..C10                                                                 *)
(***************************************************************************)

\* C1: every returned tree holds exactly one heading reading "Emerald" and
\* exactly one reading "Jade", and a heading of an earlier tier stands before
\* the heading of a later tier.
C1_OneHeadingPerTierInOrder ==
    \A k \in DOMAIN returned :
        /\ \A a \in DOMAIN Tiers : Cardinality(HeadingsOf(returned[k], Tiers[a])) = 1
        /\ \A a, b \in DOMAIN Tiers :
              a < b => \A i \in HeadingsOf(returned[k], Tiers[a]),
                          j \in HeadingsOf(returned[k], Tiers[b]) : i < j

C1_Witness ==
    \E k \in DOMAIN returned :
        /\ HeadingsOf(returned[k], "Emerald") # {}
        /\ HeadingsOf(returned[k], "Jade") # {}

\* C2: in every returned tree each tier has one section, and the number of
\* Sponsor cards in it is the length of the array declared for the tier.
C2_CardCountPerTier ==
    \A k \in DOMAIN returned : \A a \in DOMAIN Tiers :
        /\ Cardinality(SectionsOf(returned[k], Tiers[a])) = 1
        /\ \A i \in SectionsOf(returned[k], Tiers[a]) :
              Len(Cards(returned[k].children[i])) = Len(TierRecords(Tiers[a]))

C2_Witness ==
    \E k \in DOMAIN returned : \A a \in DOMAIN Tiers :
        \E i \in SectionsOf(returned[k], Tiers[a]) :
            Len(Cards(returned[k].children[i])) = 1

\* C3: for arrays of any contents, the j-th card of a tier's section in the
\* tree just returned carries the j-th record of the tier's array, with its
\* four attributes as declared.
C3_CardsInInsertionOrderUnchanged ==
    returned # <<>> =>
        \A a \in DOMAIN Tiers : \A i \in SectionsOf(Latest, Tiers[a]) :
            LET cs == Cards(Latest.children[i])
                rs == TierRecords(Tiers[a])
            IN  /\ Len(cs) = Len(rs)
                /\ \A j \in DOMAIN rs :
                      /\ cs[j].sponsor = << rs[j] >>
                      /\ cs[j].sponsor[1].imgSrc = rs[j].imgSrc
                      /\ cs[j].sponsor[1].url = rs[j].url
                      /\ cs[j].sponsor[1].name = rs[j].name
                      /\ cs[j].sponsor[1].description = rs[j].description

C3_Witness ==
    /\ returned # <<>>
    /\ Len(declared.sponsors) = 2
    /\ declared.sponsors[1] # declared.sponsors[2]
    /\ MalformedRecord \in Range(declared.sponsors)
    /\ Len(Cards(Latest)) = Len(declared.emeraldSponsors) + 2

\* C4: all trees returned by the invocations so far are equal.
C4_RenderIdempotent ==
    \A i, j \in DOMAIN returned : returned[i] = returned[j]

C4_Witness == Len(returned) >= 3 /\ returned[1] = returned[3]

\* C5: when the array of a tier is empty, the tree just returned still holds
\* the tier's section, with its heading, its separator and no card.
C5_EmptyTierStillRendered ==
    returned # <<>> =>
        \A a \in DOMAIN Tiers :
            TierRecords(Tiers[a]) = <<>> =>
                \E i \in SectionsOf(Latest, Tiers[a]) :
                    LET flat == Flatten(Latest.children[i])
                    IN  /\ \E h \in DOMAIN flat : IsSeparator(flat[h])
                        /\ Cards(Latest.children[i]) = <<>>

C5_Witness ==
    /\ declared.emeraldSponsors = <<>>
    /\ declared.sponsors # <<>>
    /\ returned # <<>>
    /\ \E i \in SectionsOf(Latest, "Emerald") : Cards(Latest.children[i]) = <<>>

\* C6: every returned tree has a section whose heading reads "Emerald" and
\* which holds, after the heading, exactly one card: the one of n8n, with
\* link https://n8n.io/, image /sponsors/logos/n8n.png and its description.
C6_EmeraldScenario ==
    \A k \in DOMAIN returned :
        \E i \in DOMAIN returned[k].children :
            LET flat == Flatten(returned[k].children[i])
            IN  \E h, c \in DOMAIN flat :
                  /\ IsHeading(flat[h]) /\ flat[h].text = "Emerald"
                  /\ h < c
                  /\ \A d \in DOMAIN flat : IsCard(flat[d]) <=> d = c
                  /\ Len(flat[c].sponsor) = 1
                  /\ flat[c].sponsor[1].url = "https://n8n.io/"
                  /\ flat[c].sponsor[1].name = "n8n"
                  /\ flat[c].sponsor[1].imgSrc = "/sponsors/logos/n8n.png"
                  /\ flat[c].sponsor[1].description =
                        "Does your interface have a backend yet? Try n8n"

C6_Witness ==
    \E k \in DOMAIN returned :
        \E i \in SectionsOf(returned[k], "Emerald") :
            \E c \in DOMAIN Cards(returned[k].children[i]) :
                Cards(returned[k].children[i])[c].sponsor[1].name = "n8n"

\* C7: every returned tree has a section whose heading reads "Jade" and
\* which holds, after the heading, exactly one card: the one of the record
\* named "Open WebUI", with link https://openwebui.com.
C7_JadeScenario ==
    \A k \in DOMAIN returned :
        \E i \in DOMAIN returned[k].children :
            LET flat == Flatten(returned[k].children[i])
            IN  \E h, c \in DOMAIN flat :
                  /\ IsHeading(flat[h]) /\ flat[h].text = "Jade"
                  /\ h < c
                  /\ \A d \in DOMAIN flat : IsCard(flat[d]) <=> d = c
                  /\ Len(flat[c].sponsor) = 1
                  /\ flat[c].sponsor[1].name = "Open WebUI"
                  /\ flat[c].sponsor[1].url = "https://openwebui.com"

C7_Witness ==
    \E k \in DOMAIN returned :
        \E i \in SectionsOf(returned[k], "Jade") :
            \E c \in DOMAIN Cards(returned[k].children[i]) :
                Cards(returned[k].children[i])[c].sponsor[1].name = "Open WebUI"

\* C8: every section of a returned tree is heading, separator, row of cards,
\* in this order and nothing else; and in document order a card of a tier
\* stands after the heading of its tier and before the heading of the next.
C8_SectionOrder ==
    \A k \in DOMAIN returned :
        /\ \A i \in DOMAIN returned[k].children :
              LET ch == returned[k].children[i].children
              IN  /\ Len(ch) = 3
                  /\ IsHeading(ch[1]) /\ ch[1].children = <<>>
                  /\ IsSeparator(ch[2]) /\ ch[2].children = <<>>
                  /\ ch[3].tag = "div" /\ ~IsHeading(ch[3])
                  /\ \A j \in DOMAIN ch[3].children : IsCard(ch[3].children[j])
        /\ LET flat == Flatten(returned[k])
           IN  \A a \in DOMAIN Tiers : \A c \in DOMAIN flat :
                  (IsCard(flat[c]) /\ flat[c].sponsor[1] \in Range(TierRecords(Tiers[a])))
                  => /\ \A h \in HeadingsOf(returned[k], Tiers[a]) : h < c
                     /\ a < Len(Tiers) =>
                           \A h \in HeadingsOf(returned[k], Tiers[a + 1]) : c < h

C8_Witness ==
    \E k \in DOMAIN returned : \E i \in DOMAIN returned[k].children :
        /\ Len(returned[k].children[i].children) = 3
        /\ IsSeparator(returned[k].children[i].children[2])
        /\ returned[k].children[i].children[3].children # <<>>

\* C9: every declared record is declared in exactly one tier, and in every
\* returned tree it is the record of a card in exactly one section, the
\* section of that tier.
C9_RecordInExactlyOneTier ==
    \A a \in DOMAIN Tiers : \A r \in Range(TierRecords(Tiers[a])) :
        /\ \A b \in DOMAIN Tiers : r \in Range(TierRecords(Tiers[b])) => b = a
        /\ \A k \in DOMAIN returned :
              { i \in DOMAIN returned[k].children :
                    \E c \in DOMAIN Cards(returned[k].children[i]) :
                        Cards(returned[k].children[i])[c].sponsor = <<r>> }
              = SectionsOf(returned[k], Tiers[a])
        /\ \A k \in DOMAIN returned :
              Cardinality(SectionsOf(returned[k], Tiers[a])) = 1

C9_Witness ==
    \E k \in DOMAIN returned :
        /\ Cards(returned[k].children[1])[1].sponsor = << EmeraldLiteral[1] >>
        /\ Cards(returned[k].children[2])[1].sponsor = << JadeLiteral[1] >>

\* C10: no step of a render changes the declared data or a tree returned
\* earlier; the arrays of an invocation are written only at its entry, and
\* from then on they equal the literals of the source.
C10_Step ==
    /\ declared' = declared
    /\ Len(returned') >= Len(returned)
    /\ \A k \in DOMAIN returned : returned'[k] = returned[k]
    /\ pc # "idle" => (emeraldSponsors' = emeraldSponsors /\ sponsors' = sponsors)
    /\ (pc' # "idle" \/ returned' # <<>>) =>
          /\ emeraldSponsors' = EmeraldLiteral
          /\ sponsors' = JadeLiteral
    /\ returned' # returned => UNCHANGED <<emeraldSponsors, sponsors, cards, sections>>

C10_NoSideEffects == [][C10_Step]_vars

C10_Witness ==
    /\ Len(returned) >= 2
    /\ pc = "root"
    /\ emeraldSponsors = EmeraldLiteral
    /\ sponsors = JadeLiteral
    /\ Len(sections) = 2

(***************************************************************************)
(* C11, C14                                                                *)
(***************************************************************************)

\* The steps an invocation in this state still has to take before it returns.
StepsLeft ==
    CASE pc = "idle"    -> 0
      [] pc = "emerald" -> (Len(emeraldSponsors) - Len(cards)) + Len(sponsors) + 3
      [] pc = "jade"    -> (Len(sponsors) - Len(cards)) + 2
      [] pc = "root"    -> 1

C11_CanStep ==
    pc # "idle" => ENABLED (MapEmerald \/ EmeraldSection \/ MapJade \/ JadeSection \/ Return)

C11_StepCloser ==
    /\ pc # "idle" => StepsLeft' = StepsLeft - 1
    /\ (pc # "idle" /\ pc' = "idle") => Len(returned') = Len(returned) + 1

\* C11: whatever strings the records hold, an invocation that has started is
\* never stuck before its return, every step of it brings the return one step
\* closer, and it ends by returning a tree: there is no other outcome.
C11_NoErrorOutcome == [](C11_CanStep /\ StepsLeft >= 0) /\ [][C11_StepCloser]_vars

C11_Witness ==
    /\ MalformedRecord \in Range(declared.emeraldSponsors)
    /\ MalformedRecord \in Range(declared.sponsors)
    /\ returned # <<>>
    /\ pc = "idle"
    /\ \E c \in DOMAIN Cards(Latest) : Cards(Latest)[c].sponsor[1].url = "not a url"

\* C14: in every returned tree the headings read Emerald and Jade and nothing
\* else, and the tree holds two sections and two separators: nothing of the
\* Diamond, Sapphire and Topaz sections of the comment is in it.
C14_OnlyEmeraldAndJade ==
    \A k \in DOMAIN returned :
        LET flat == Flatten(returned[k])
        IN  /\ { flat[i].text : i \in { j \in DOMAIN flat : IsHeading(flat[j]) } }
                  = { "Emerald", "Jade" }
            /\ \A t \in { "Diamond", "Sapphire", "Topaz" } : HeadingsOf(returned[k], t) = {}
            /\ Len(returned[k].children) = 2
            /\ Cardinality({ i \in DOMAIN flat : IsSeparator(flat[i]) }) = 2
            /\ Cardinality({ i \in DOMAIN flat : IsCard(flat[i]) })
                  = Len(declared.emeraldSponsors) + Len(declared.sponsors)

C14_Witness ==
    \E k \in DOMAIN returned :
        /\ Len(returned[k].children) = 2
        /\ returned[k].children[1].children[1].text = "Emerald"
        /\ returned[k].children[2].children[1].text = "Jade"

====
